---- MODULE Spec2Model ----
(***************************************************************************)
(* A model of extract_text.py: the filename sanitizer, the navigation      *)
(* title index, the title resolution cascade and the segmentation driver   *)
(* (extract_text_from_epub under the batch loop process_all_epubs).        *)
(*                                                                         *)
(* A Python string is the sequence of its Unicode code points, so that     *)
(* slicing, splitting, trimming, length and the character classes are      *)
(* computed as Python computes them, for every character.                  *)
(* An optional value (None or a value) is a sequence of length 0 or 1.     *)
(***************************************************************************)
EXTENDS Integers, Sequences, FiniteSets, TLC

VARIABLES
    pc,                  \* where the program stands
    queue,               \* epub files the batch loop has still to process
    output_base,         \* output_base_folder (the batch's output root)
    book,                \* the book read by epub.read_epub
    output_folder,       \* output_folder of the running book
    file_counter,        \* file_counter
    non_chapter_content, \* non_chapter_content
    nav_titles,          \* nav_titles
    idx,                 \* 1-based position of the loop in book.spine
    fs,                  \* the filesystem: path -> [content, owners]
    err,                 \* which operation raised, "" when none
    dirs,                \* history: output_folder of every book started
    written,             \* history: chapter files written by the running book
    agg_written,         \* history: writes of the aggregate file, running book
    processed,           \* history: spine positions that passed all three tests
    call,                \* argument record of a function applied on its own
    ret                  \* its result

vars == << pc, queue, output_base, book, output_folder, file_counter,
           non_chapter_content, nav_titles, idx, fs, err, dirs, written,
           agg_written, processed, call, ret >>

----------------------------------------------------------------------------
(* Bounds of the model *)

MaxTitleLen == 4
MaxLength == 5
MaxSpine == 4
MaxBooks == 2
MaxSoup == 2
MaxNav == 1

----------------------------------------------------------------------------
(* Strings *)

Rep(c, n) == [i \in 1..n |-> c]

Take(s, n) == SubSeq(s, 1, IF n < Len(s) THEN n ELSE Len(s))

RECURSIVE SeqsUpTo(_, _)
SeqsUpTo(S, n) ==
    IF n = 0 THEN { <<>> }
    ELSE LET shorter == SeqsUpTo(S, n - 1)
         IN  shorter \cup { Append(s, x) : s \in { t \in shorter : Len(t) = n - 1 }, x \in S }

\* The code points above ASCII for which str.isalnum() is true (Unicode 14.0, the
\* table of CPython 3.11), as closed ranges in increasing order
AlnumRanges == <<
    <<170, 170>>, <<178, 179>>, <<181, 181>>, <<185, 186>>, <<188, 190>>,
    <<192, 214>>, <<216, 246>>, <<248, 705>>, <<710, 721>>, <<736, 740>>,
    <<748, 748>>, <<750, 750>>, <<880, 884>>, <<886, 887>>, <<890, 893>>,
    <<895, 895>>, <<902, 902>>, <<904, 906>>, <<908, 908>>, <<910, 929>>,
    <<931, 1013>>, <<1015, 1153>>, <<1162, 1327>>, <<1329, 1366>>,
    <<1369, 1369>>, <<1376, 1416>>, <<1488, 1514>>, <<1519, 1522>>,
    <<1568, 1610>>, <<1632, 1641>>, <<1646, 1647>>, <<1649, 1747>>,
    <<1749, 1749>>, <<1765, 1766>>, <<1774, 1788>>, <<1791, 1791>>,
    <<1808, 1808>>, <<1810, 1839>>, <<1869, 1957>>, <<1969, 1969>>,
    <<1984, 2026>>, <<2036, 2037>>, <<2042, 2042>>, <<2048, 2069>>,
    <<2074, 2074>>, <<2084, 2084>>, <<2088, 2088>>, <<2112, 2136>>,
    <<2144, 2154>>, <<2160, 2183>>, <<2185, 2190>>, <<2208, 2249>>,
    <<2308, 2361>>, <<2365, 2365>>, <<2384, 2384>>, <<2392, 2401>>,
    <<2406, 2415>>, <<2417, 2432>>, <<2437, 2444>>, <<2447, 2448>>,
    <<2451, 2472>>, <<2474, 2480>>, <<2482, 2482>>, <<2486, 2489>>,
    <<2493, 2493>>, <<2510, 2510>>, <<2524, 2525>>, <<2527, 2529>>,
    <<2534, 2545>>, <<2548, 2553>>, <<2556, 2556>>, <<2565, 2570>>,
    <<2575, 2576>>, <<2579, 2600>>, <<2602, 2608>>, <<2610, 2611>>,
    <<2613, 2614>>, <<2616, 2617>>, <<2649, 2652>>, <<2654, 2654>>,
    <<2662, 2671>>, <<2674, 2676>>, <<2693, 2701>>, <<2703, 2705>>,
    <<2707, 2728>>, <<2730, 2736>>, <<2738, 2739>>, <<2741, 2745>>,
    <<2749, 2749>>, <<2768, 2768>>, <<2784, 2785>>, <<2790, 2799>>,
    <<2809, 2809>>, <<2821, 2828>>, <<2831, 2832>>, <<2835, 2856>>,
    <<2858, 2864>>, <<2866, 2867>>, <<2869, 2873>>, <<2877, 2877>>,
    <<2908, 2909>>, <<2911, 2913>>, <<2918, 2927>>, <<2929, 2935>>,
    <<2947, 2947>>, <<2949, 2954>>, <<2958, 2960>>, <<2962, 2965>>,
    <<2969, 2970>>, <<2972, 2972>>, <<2974, 2975>>, <<2979, 2980>>,
    <<2984, 2986>>, <<2990, 3001>>, <<3024, 3024>>, <<3046, 3058>>,
    <<3077, 3084>>, <<3086, 3088>>, <<3090, 3112>>, <<3114, 3129>>,
    <<3133, 3133>>, <<3160, 3162>>, <<3165, 3165>>, <<3168, 3169>>,
    <<3174, 3183>>, <<3192, 3198>>, <<3200, 3200>>, <<3205, 3212>>,
    <<3214, 3216>>, <<3218, 3240>>, <<3242, 3251>>, <<3253, 3257>>,
    <<3261, 3261>>, <<3293, 3294>>, <<3296, 3297>>, <<3302, 3311>>,
    <<3313, 3314>>, <<3332, 3340>>, <<3342, 3344>>, <<3346, 3386>>,
    <<3389, 3389>>, <<3406, 3406>>, <<3412, 3414>>, <<3416, 3425>>,
    <<3430, 3448>>, <<3450, 3455>>, <<3461, 3478>>, <<3482, 3505>>,
    <<3507, 3515>>, <<3517, 3517>>, <<3520, 3526>>, <<3558, 3567>>,
    <<3585, 3632>>, <<3634, 3635>>, <<3648, 3654>>, <<3664, 3673>>,
    <<3713, 3714>>, <<3716, 3716>>, <<3718, 3722>>, <<3724, 3747>>,
    <<3749, 3749>>, <<3751, 3760>>, <<3762, 3763>>, <<3773, 3773>>,
    <<3776, 3780>>, <<3782, 3782>>, <<3792, 3801>>, <<3804, 3807>>,
    <<3840, 3840>>, <<3872, 3891>>, <<3904, 3911>>, <<3913, 3948>>,
    <<3976, 3980>>, <<4096, 4138>>, <<4159, 4169>>, <<4176, 4181>>,
    <<4186, 4189>>, <<4193, 4193>>, <<4197, 4198>>, <<4206, 4208>>,
    <<4213, 4225>>, <<4238, 4238>>, <<4240, 4249>>, <<4256, 4293>>,
    <<4295, 4295>>, <<4301, 4301>>, <<4304, 4346>>, <<4348, 4680>>,
    <<4682, 4685>>, <<4688, 4694>>, <<4696, 4696>>, <<4698, 4701>>,
    <<4704, 4744>>, <<4746, 4749>>, <<4752, 4784>>, <<4786, 4789>>,
    <<4792, 4798>>, <<4800, 4800>>, <<4802, 4805>>, <<4808, 4822>>,
    <<4824, 4880>>, <<4882, 4885>>, <<4888, 4954>>, <<4969, 4988>>,
    <<4992, 5007>>, <<5024, 5109>>, <<5112, 5117>>, <<5121, 5740>>,
    <<5743, 5759>>, <<5761, 5786>>, <<5792, 5866>>, <<5870, 5880>>,
    <<5888, 5905>>, <<5919, 5937>>, <<5952, 5969>>, <<5984, 5996>>,
    <<5998, 6000>>, <<6016, 6067>>, <<6103, 6103>>, <<6108, 6108>>,
    <<6112, 6121>>, <<6128, 6137>>, <<6160, 6169>>, <<6176, 6264>>,
    <<6272, 6276>>, <<6279, 6312>>, <<6314, 6314>>, <<6320, 6389>>,
    <<6400, 6430>>, <<6470, 6509>>, <<6512, 6516>>, <<6528, 6571>>,
    <<6576, 6601>>, <<6608, 6618>>, <<6656, 6678>>, <<6688, 6740>>,
    <<6784, 6793>>, <<6800, 6809>>, <<6823, 6823>>, <<6917, 6963>>,
    <<6981, 6988>>, <<6992, 7001>>, <<7043, 7072>>, <<7086, 7141>>,
    <<7168, 7203>>, <<7232, 7241>>, <<7245, 7293>>, <<7296, 7304>>,
    <<7312, 7354>>, <<7357, 7359>>, <<7401, 7404>>, <<7406, 7411>>,
    <<7413, 7414>>, <<7418, 7418>>, <<7424, 7615>>, <<7680, 7957>>,
    <<7960, 7965>>, <<7968, 8005>>, <<8008, 8013>>, <<8016, 8023>>,
    <<8025, 8025>>, <<8027, 8027>>, <<8029, 8029>>, <<8031, 8061>>,
    <<8064, 8116>>, <<8118, 8124>>, <<8126, 8126>>, <<8130, 8132>>,
    <<8134, 8140>>, <<8144, 8147>>, <<8150, 8155>>, <<8160, 8172>>,
    <<8178, 8180>>, <<8182, 8188>>, <<8304, 8305>>, <<8308, 8313>>,
    <<8319, 8329>>, <<8336, 8348>>, <<8450, 8450>>, <<8455, 8455>>,
    <<8458, 8467>>, <<8469, 8469>>, <<8473, 8477>>, <<8484, 8484>>,
    <<8486, 8486>>, <<8488, 8488>>, <<8490, 8493>>, <<8495, 8505>>,
    <<8508, 8511>>, <<8517, 8521>>, <<8526, 8526>>, <<8528, 8585>>,
    <<9312, 9371>>, <<9450, 9471>>, <<10102, 10131>>, <<11264, 11492>>,
    <<11499, 11502>>, <<11506, 11507>>, <<11517, 11517>>, <<11520, 11557>>,
    <<11559, 11559>>, <<11565, 11565>>, <<11568, 11623>>, <<11631, 11631>>,
    <<11648, 11670>>, <<11680, 11686>>, <<11688, 11694>>, <<11696, 11702>>,
    <<11704, 11710>>, <<11712, 11718>>, <<11720, 11726>>, <<11728, 11734>>,
    <<11736, 11742>>, <<11823, 11823>>, <<12293, 12295>>, <<12321, 12329>>,
    <<12337, 12341>>, <<12344, 12348>>, <<12353, 12438>>, <<12445, 12447>>,
    <<12449, 12538>>, <<12540, 12543>>, <<12549, 12591>>, <<12593, 12686>>,
    <<12690, 12693>>, <<12704, 12735>>, <<12784, 12799>>, <<12832, 12841>>,
    <<12872, 12879>>, <<12881, 12895>>, <<12928, 12937>>, <<12977, 12991>>,
    <<13312, 19903>>, <<19968, 42124>>, <<42192, 42237>>, <<42240, 42508>>,
    <<42512, 42539>>, <<42560, 42606>>, <<42623, 42653>>, <<42656, 42735>>,
    <<42775, 42783>>, <<42786, 42888>>, <<42891, 42954>>, <<42960, 42961>>,
    <<42963, 42963>>, <<42965, 42969>>, <<42994, 43009>>, <<43011, 43013>>,
    <<43015, 43018>>, <<43020, 43042>>, <<43056, 43061>>, <<43072, 43123>>,
    <<43138, 43187>>, <<43216, 43225>>, <<43250, 43255>>, <<43259, 43259>>,
    <<43261, 43262>>, <<43264, 43301>>, <<43312, 43334>>, <<43360, 43388>>,
    <<43396, 43442>>, <<43471, 43481>>, <<43488, 43492>>, <<43494, 43518>>,
    <<43520, 43560>>, <<43584, 43586>>, <<43588, 43595>>, <<43600, 43609>>,
    <<43616, 43638>>, <<43642, 43642>>, <<43646, 43695>>, <<43697, 43697>>,
    <<43701, 43702>>, <<43705, 43709>>, <<43712, 43712>>, <<43714, 43714>>,
    <<43739, 43741>>, <<43744, 43754>>, <<43762, 43764>>, <<43777, 43782>>,
    <<43785, 43790>>, <<43793, 43798>>, <<43808, 43814>>, <<43816, 43822>>,
    <<43824, 43866>>, <<43868, 43881>>, <<43888, 44002>>, <<44016, 44025>>,
    <<44032, 55203>>, <<55216, 55238>>, <<55243, 55291>>, <<63744, 64109>>,
    <<64112, 64217>>, <<64256, 64262>>, <<64275, 64279>>, <<64285, 64285>>,
    <<64287, 64296>>, <<64298, 64310>>, <<64312, 64316>>, <<64318, 64318>>,
    <<64320, 64321>>, <<64323, 64324>>, <<64326, 64433>>, <<64467, 64829>>,
    <<64848, 64911>>, <<64914, 64967>>, <<65008, 65019>>, <<65136, 65140>>,
    <<65142, 65276>>, <<65296, 65305>>, <<65313, 65338>>, <<65345, 65370>>,
    <<65382, 65470>>, <<65474, 65479>>, <<65482, 65487>>, <<65490, 65495>>,
    <<65498, 65500>>, <<65536, 65547>>, <<65549, 65574>>, <<65576, 65594>>,
    <<65596, 65597>>, <<65599, 65613>>, <<65616, 65629>>, <<65664, 65786>>,
    <<65799, 65843>>, <<65856, 65912>>, <<65930, 65931>>, <<66176, 66204>>,
    <<66208, 66256>>, <<66273, 66299>>, <<66304, 66339>>, <<66349, 66378>>,
    <<66384, 66421>>, <<66432, 66461>>, <<66464, 66499>>, <<66504, 66511>>,
    <<66513, 66517>>, <<66560, 66717>>, <<66720, 66729>>, <<66736, 66771>>,
    <<66776, 66811>>, <<66816, 66855>>, <<66864, 66915>>, <<66928, 66938>>,
    <<66940, 66954>>, <<66956, 66962>>, <<66964, 66965>>, <<66967, 66977>>,
    <<66979, 66993>>, <<66995, 67001>>, <<67003, 67004>>, <<67072, 67382>>,
    <<67392, 67413>>, <<67424, 67431>>, <<67456, 67461>>, <<67463, 67504>>,
    <<67506, 67514>>, <<67584, 67589>>, <<67592, 67592>>, <<67594, 67637>>,
    <<67639, 67640>>, <<67644, 67644>>, <<67647, 67669>>, <<67672, 67702>>,
    <<67705, 67742>>, <<67751, 67759>>, <<67808, 67826>>, <<67828, 67829>>,
    <<67835, 67867>>, <<67872, 67897>>, <<67968, 68023>>, <<68028, 68047>>,
    <<68050, 68096>>, <<68112, 68115>>, <<68117, 68119>>, <<68121, 68149>>,
    <<68160, 68168>>, <<68192, 68222>>, <<68224, 68255>>, <<68288, 68295>>,
    <<68297, 68324>>, <<68331, 68335>>, <<68352, 68405>>, <<68416, 68437>>,
    <<68440, 68466>>, <<68472, 68497>>, <<68521, 68527>>, <<68608, 68680>>,
    <<68736, 68786>>, <<68800, 68850>>, <<68858, 68899>>, <<68912, 68921>>,
    <<69216, 69246>>, <<69248, 69289>>, <<69296, 69297>>, <<69376, 69415>>,
    <<69424, 69445>>, <<69457, 69460>>, <<69488, 69505>>, <<69552, 69579>>,
    <<69600, 69622>>, <<69635, 69687>>, <<69714, 69743>>, <<69745, 69746>>,
    <<69749, 69749>>, <<69763, 69807>>, <<69840, 69864>>, <<69872, 69881>>,
    <<69891, 69926>>, <<69942, 69951>>, <<69956, 69956>>, <<69959, 69959>>,
    <<69968, 70002>>, <<70006, 70006>>, <<70019, 70066>>, <<70081, 70084>>,
    <<70096, 70106>>, <<70108, 70108>>, <<70113, 70132>>, <<70144, 70161>>,
    <<70163, 70187>>, <<70272, 70278>>, <<70280, 70280>>, <<70282, 70285>>,
    <<70287, 70301>>, <<70303, 70312>>, <<70320, 70366>>, <<70384, 70393>>,
    <<70405, 70412>>, <<70415, 70416>>, <<70419, 70440>>, <<70442, 70448>>,
    <<70450, 70451>>, <<70453, 70457>>, <<70461, 70461>>, <<70480, 70480>>,
    <<70493, 70497>>, <<70656, 70708>>, <<70727, 70730>>, <<70736, 70745>>,
    <<70751, 70753>>, <<70784, 70831>>, <<70852, 70853>>, <<70855, 70855>>,
    <<70864, 70873>>, <<71040, 71086>>, <<71128, 71131>>, <<71168, 71215>>,
    <<71236, 71236>>, <<71248, 71257>>, <<71296, 71338>>, <<71352, 71352>>,
    <<71360, 71369>>, <<71424, 71450>>, <<71472, 71483>>, <<71488, 71494>>,
    <<71680, 71723>>, <<71840, 71922>>, <<71935, 71942>>, <<71945, 71945>>,
    <<71948, 71955>>, <<71957, 71958>>, <<71960, 71983>>, <<71999, 71999>>,
    <<72001, 72001>>, <<72016, 72025>>, <<72096, 72103>>, <<72106, 72144>>,
    <<72161, 72161>>, <<72163, 72163>>, <<72192, 72192>>, <<72203, 72242>>,
    <<72250, 72250>>, <<72272, 72272>>, <<72284, 72329>>, <<72349, 72349>>,
    <<72368, 72440>>, <<72704, 72712>>, <<72714, 72750>>, <<72768, 72768>>,
    <<72784, 72812>>, <<72818, 72847>>, <<72960, 72966>>, <<72968, 72969>>,
    <<72971, 73008>>, <<73030, 73030>>, <<73040, 73049>>, <<73056, 73061>>,
    <<73063, 73064>>, <<73066, 73097>>, <<73112, 73112>>, <<73120, 73129>>,
    <<73440, 73458>>, <<73648, 73648>>, <<73664, 73684>>, <<73728, 74649>>,
    <<74752, 74862>>, <<74880, 75075>>, <<77712, 77808>>, <<77824, 78894>>,
    <<82944, 83526>>, <<92160, 92728>>, <<92736, 92766>>, <<92768, 92777>>,
    <<92784, 92862>>, <<92864, 92873>>, <<92880, 92909>>, <<92928, 92975>>,
    <<92992, 92995>>, <<93008, 93017>>, <<93019, 93025>>, <<93027, 93047>>,
    <<93053, 93071>>, <<93760, 93846>>, <<93952, 94026>>, <<94032, 94032>>,
    <<94099, 94111>>, <<94176, 94177>>, <<94179, 94179>>, <<94208, 100343>>,
    <<100352, 101589>>, <<101632, 101640>>, <<110576, 110579>>,
    <<110581, 110587>>, <<110589, 110590>>, <<110592, 110882>>,
    <<110928, 110930>>, <<110948, 110951>>, <<110960, 111355>>,
    <<113664, 113770>>, <<113776, 113788>>, <<113792, 113800>>,
    <<113808, 113817>>, <<119520, 119539>>, <<119648, 119672>>,
    <<119808, 119892>>, <<119894, 119964>>, <<119966, 119967>>,
    <<119970, 119970>>, <<119973, 119974>>, <<119977, 119980>>,
    <<119982, 119993>>, <<119995, 119995>>, <<119997, 120003>>,
    <<120005, 120069>>, <<120071, 120074>>, <<120077, 120084>>,
    <<120086, 120092>>, <<120094, 120121>>, <<120123, 120126>>,
    <<120128, 120132>>, <<120134, 120134>>, <<120138, 120144>>,
    <<120146, 120485>>, <<120488, 120512>>, <<120514, 120538>>,
    <<120540, 120570>>, <<120572, 120596>>, <<120598, 120628>>,
    <<120630, 120654>>, <<120656, 120686>>, <<120688, 120712>>,
    <<120714, 120744>>, <<120746, 120770>>, <<120772, 120779>>,
    <<120782, 120831>>, <<122624, 122654>>, <<123136, 123180>>,
    <<123191, 123197>>, <<123200, 123209>>, <<123214, 123214>>,
    <<123536, 123565>>, <<123584, 123627>>, <<123632, 123641>>,
    <<124896, 124902>>, <<124904, 124907>>, <<124909, 124910>>,
    <<124912, 124926>>, <<124928, 125124>>, <<125127, 125135>>,
    <<125184, 125251>>, <<125259, 125259>>, <<125264, 125273>>,
    <<126065, 126123>>, <<126125, 126127>>, <<126129, 126132>>,
    <<126209, 126253>>, <<126255, 126269>>, <<126464, 126467>>,
    <<126469, 126495>>, <<126497, 126498>>, <<126500, 126500>>,
    <<126503, 126503>>, <<126505, 126514>>, <<126516, 126519>>,
    <<126521, 126521>>, <<126523, 126523>>, <<126530, 126530>>,
    <<126535, 126535>>, <<126537, 126537>>, <<126539, 126539>>,
    <<126541, 126543>>, <<126545, 126546>>, <<126548, 126548>>,
    <<126551, 126551>>, <<126553, 126553>>, <<126555, 126555>>,
    <<126557, 126557>>, <<126559, 126559>>, <<126561, 126562>>,
    <<126564, 126564>>, <<126567, 126570>>, <<126572, 126578>>,
    <<126580, 126583>>, <<126585, 126588>>, <<126590, 126590>>,
    <<126592, 126601>>, <<126603, 126619>>, <<126625, 126627>>,
    <<126629, 126633>>, <<126635, 126651>>, <<127232, 127244>>,
    <<130032, 130041>>, <<131072, 173791>>, <<173824, 177976>>,
    <<177984, 178205>>, <<178208, 183969>>, <<183984, 191456>>,
    <<194560, 195101>>, <<196608, 201546>> >>

\* str.isalnum() on one character: 0-9, A-Z, a-z, or a code point of the table
IsAlnum(c) ==
    IF c < 128
    THEN (48 <= c /\ c <= 57) \/ (65 <= c /\ c <= 90) \/ (97 <= c /\ c <= 122)
    ELSE \E k \in 1..Len(AlnumRanges) : AlnumRanges[k][1] <= c /\ c <= AlnumRanges[k][2]

\* the characters str.strip() removes: tab, line feed, vertical tab, form feed,
\* carriage return, U+001C to U+001F, space, U+0085, U+00A0, U+1680, U+2000 to
\* U+200A, U+2028, U+2029, U+202F, U+205F, U+3000
WhiteSpace == { 9, 10, 11, 12, 13, 28, 29, 30, 31, 32, 133, 160, 5760, 8192, 8193, 8194, 8195, 8196, 8197, 8198, 8199, 8200, 8201, 8202, 8232, 8233, 8239, 8287, 12288 }

IsSpace(c) == c \in WhiteSpace

\* s.rstrip(c)
RECURSIVE RStripChar(_, _)
RStripChar(s, c) ==
    IF s # <<>> /\ s[Len(s)] = c THEN RStripChar(SubSeq(s, 1, Len(s) - 1), c) ELSE s

RECURSIVE LStrip(_)
LStrip(s) == IF s # <<>> /\ IsSpace(s[1]) THEN LStrip(Tail(s)) ELSE s

RECURSIVE RStrip(_)
RStrip(s) ==
    IF s # <<>> /\ IsSpace(s[Len(s)]) THEN RStrip(SubSeq(s, 1, Len(s) - 1)) ELSE s

\* s.strip()
Strip(s) == LStrip(RStrip(s))

\* s.split(c)[0]: the text before the first c
SplitFirst(s, c) ==
    LET at == { i \in 1..Len(s) : s[i] = c }
    IN  IF at = {} THEN s
        ELSE SubSeq(s, 1, (CHOOSE i \in at : \A j \in at : i <= j) - 1)

\* s.split(c)[-1]: the text after the last c
SplitLast(s, c) ==
    LET at == { i \in 1..Len(s) : s[i] = c }
    IN  IF at = {} THEN s
        ELSE SubSeq(s, (CHOOSE i \in at : \A j \in at : j <= i) + 1, Len(s))

----------------------------------------------------------------------------
(* sanitize_filename *)

sanitize_filename_keeps_length(title, max_length) ==
    [i \in 1..Len(title) |-> IF IsAlnum(title[i]) THEN title[i] ELSE 95]

sanitize_filename(title, max_length) ==
    LET safe_title == [i \in 1..Len(title) |-> IF IsAlnum(title[i]) THEN title[i] ELSE 95]
    IN  IF Len(safe_title) > max_length
        THEN RStripChar(Take(safe_title, max_length), 95)
        ELSE safe_title

----------------------------------------------------------------------------
(* extract_titles_from_nav *)

EmptyMap == [k \in {} |-> <<>>]

\* the file names "a.x", "d/a.x" and "b.x"
NameA == << 97, 46, 120 >>
NameInDir == << 100, 47, 97, 46, 120 >>
NameB == << 98, 46, 120 >>

NavPoint(label, src) == [label |-> label, src |-> src]

NoBook == [title |-> <<>>, spine |-> <<>>, nav |-> <<>>]

\* nav_map[key] = label
MapPut(m, key, label) ==
    [k \in DOMAIN m \cup { key } |-> IF k = key THEN label ELSE m[k]]

\* the key one navPoint is stored under
NavKey(src) == SplitFirst(src, 35)

\* navPoints: the navPoint elements of the book's navigation items, in the order
\* find_all yields them, each with its label text and its content src
RECURSIVE NavMapOf(_, _)
NavMapOf(navPoints, n) ==
    IF n = 0 THEN EmptyMap
    ELSE MapPut(NavMapOf(navPoints, n - 1), NavKey(navPoints[n].src), navPoints[n].label)

extract_titles_from_nav(b) == NavMapOf(b.nav, Len(b.nav))

----------------------------------------------------------------------------
(* The parsed tree (soup): the elements of the body in document order, each  *)
(* with its tag name, its class, its get_text(strip=True), the tag name of  *)
(* its parent and whether it compares equal to its parent's contents[0].   *)

El(tag, class, text, parent, first) ==
    [tag |-> tag, class |-> class, text |-> text, parent |-> parent, first |-> first]

HeadingTags == { "h1", "h2", "h3", "h4" }
LikelyParents == { "h1", "h2", "h3", "div", "header", "title", "nav" }
MinEmLength == 5

\* "Untitled"
Untitled == << 85, 110, 116, 105, 116, 108, 101, 100 >>

IsHeading(e) == e.tag \in HeadingTags
IsPTitle(e) == e.tag = "p" /\ e.class = "title"
IsDivChapterTitle(e) == e.tag = "div" /\ e.class = "chapter-title"
IsSpanChapterTitle(e) == e.tag = "span" /\ e.class = "chapter-title"

is_likely_title(em_element) ==
    /\ Len(em_element.text) > MinEmLength
    /\ \/ em_element.parent \in LikelyParents
       \/ em_element.first

IsLikelyEm(e) == e.tag = "em" /\ is_likely_title(e)

\* the queries of lines 59-73
Matches(e, query) ==
    CASE query = "heading" -> IsHeading(e)
      [] query = "p.title" -> IsPTitle(e)
      [] query = "div.chapter-title" -> IsDivChapterTitle(e)
      [] query = "span.chapter-title" -> IsSpanChapterTitle(e)
      [] query = "likely em" -> IsLikelyEm(e)

\* soup.find(...): the first element in document order that matches, or None
FindFirst(soup, query) ==
    LET hits == { i \in 1..Len(soup) : Matches(soup[i], query) }
    IN  IF hits = {} THEN <<>>
        ELSE << soup[CHOOSE i \in hits : \A j \in hits : i <= j] >>

\* a or b on optional elements (an element is always truthy)
OrElse(a, b) == IF a # <<>> THEN a ELSE b

\* lines 59-73: the element the title is taken from, or None
ChapterTitleElement(soup) ==
    LET heading == FindFirst(soup, "heading")
        byClass == OrElse(FindFirst(soup, "p.title"),
                       OrElse(FindFirst(soup, "div.chapter-title"),
                              FindFirst(soup, "span.chapter-title")))
        byEm == FindFirst(soup, "likely em")
    IN  OrElse(heading, OrElse(byClass, byEm))

\* epub_item.title or "Untitled"
IntrinsicTitle(item) ==
    IF item.title = <<>> \/ item.title[1] = <<>> THEN Untitled ELSE item.title[1]

\* epub_item.get_name().split('/')[-1].split('#')[0]
ContentSrc(item) == SplitFirst(SplitLast(item.name, 47), 35)

\* nav_titles.get(content_src, title)
NavGet(navTitles, key, default) ==
    IF key \in DOMAIN navTitles THEN navTitles[key] ELSE default

ResolveTitle_nav_overrides(item, navTitles) ==
    LET chapter_title == ChapterTitleElement(item.soup)
        title0 == IntrinsicTitle(item)
        title1 == IF chapter_title # <<>> THEN chapter_title[1].text ELSE title0
    IN  IF DOMAIN navTitles # {} THEN NavGet(navTitles, ContentSrc(item), title1) ELSE title1

\* lines 53-82: the title of one fragment
ResolveTitle(item, navTitles) ==
    LET chapter_title == ChapterTitleElement(item.soup)
        title0 == IntrinsicTitle(item)
        title1 == IF chapter_title = <<>> /\ DOMAIN navTitles # {}
                  THEN NavGet(navTitles, ContentSrc(item), title0)
                  ELSE title0
    IN  IF chapter_title # <<>> THEN chapter_title[1].text ELSE title1

----------------------------------------------------------------------------
(* Paths and file names *)

PathLimit == 255
DefaultMaxLength == 100
min_content_length == 100
\* book.spine[1:] starts at the second entry
FirstSpineIndex == 2

\* 'Unknown_Book', ".txt" and "000_non_chapter_content.txt"
UnknownBook == << 85, 110, 107, 110, 111, 119, 110, 95, 66, 111, 111, 107 >>
DotTxt == << 46, 116, 120, 116 >>
AggregateName == << 48, 48, 48, 95, 110, 111, 110, 95, 99, 104, 97, 112, 116, 101, 114,
                    95, 99, 111, 110, 116, 101, 110, 116 >> \o DotTxt

\* str(n)
RECURSIVE Decimal(_)
Decimal(n) == IF n < 10 THEN << 48 + n >>
              ELSE Decimal(n \div 10) \o << 48 + (n % 10) >>

\* f"{n:03}"
Fmt03(n) == LET d == Decimal(n) IN Rep(48, IF Len(d) < 3 THEN 3 - Len(d) ELSE 0) \o d

\* pathlib on POSIX.  A path is a root ("", "/" or "//") and a list of names:
\* a segment that starts with exactly two slashes has the root "//", one that
\* starts with any other number of slashes has the root "/"; the names are the
\* pieces between slashes other than "" and ".".
PathRoot(s) ==
    IF s = <<>> \/ s[1] # 47 THEN <<>>
    ELSE IF Len(s) >= 2 /\ s[2] = 47 /\ (Len(s) = 2 \/ s[3] # 47) THEN << 47, 47 >>
    ELSE << 47 >>

RECURSIVE SplitAll(_, _)
SplitAll(s, c) ==
    LET first == SplitFirst(s, c)
    IN  IF Len(first) = Len(s) THEN << s >>
        ELSE << first >> \o SplitAll(SubSeq(s, Len(first) + 2, Len(s)), c)

IsPathName(piece) == piece # <<>> /\ piece # << 46 >>

PathParts(s) == SelectSeq(SplitAll(s, 47), IsPathName)

RECURSIVE JoinParts(_)
JoinParts(parts) ==
    IF parts = <<>> THEN <<>>
    ELSE IF Len(parts) = 1 THEN parts[1]
    ELSE parts[1] \o << 47 >> \o JoinParts(Tail(parts))

\* str() of a path: the root and the names joined by "/", "." when there is neither
PathStr(root, parts) == IF root = <<>> /\ parts = <<>> THEN << 46 >> ELSE root \o JoinParts(parts)

\* str(Path(s))
Path(s) == PathStr(PathRoot(s), PathParts(s))

\* str(folder / name): a name with a root replaces the folder
PathJoin(folder, name) ==
    IF PathRoot(name) # <<>> THEN Path(name)
    ELSE PathStr(PathRoot(folder), PathParts(folder) \o PathParts(name))

\* lines 32-36: the output folder of a book
BookTitle(b) == IF b.title # <<>> THEN b.title[1] ELSE UnknownBook

OutputFolder(base, b) == PathJoin(base, sanitize_filename(BookTitle(b), DefaultMaxLength))

\* lines 89-97: the path one chapter is written to
ChapterPath(folder, counter, title) ==
    LET prefix == Fmt03(counter) \o << 95 >>
        file_name == PathJoin(folder, prefix \o sanitize_filename(title, DefaultMaxLength) \o DotTxt)
    IN  IF Len(file_name) > PathLimit
        THEN PathJoin(folder,
                 prefix \o sanitize_filename(title, DefaultMaxLength - (Len(prefix) + Len(DotTxt)))
                        \o DotTxt)
        ELSE file_name

IsChapter_inclusive(content) == Len(content) >= min_content_length

\* line 87: the classifier
IsChapter(content) == Len(content) > min_content_length

CounterAfterWrite_stuck(counter) == counter

\* line 101
CounterAfterWrite(counter) == counter + 1

ShouldWriteAggregate_untrimmed(buffer) == buffer # <<>>

\* line 107
ShouldWriteAggregate(buffer) == Strip(buffer) # <<>>

\* open(path, 'w') and write(content), by the book numbered who
FsWrite(files, path, content, who) ==
    [p \in DOMAIN files \cup { path } |->
        IF p = path
        THEN [content |-> content,
              owners |-> (IF path \in DOMAIN files THEN files[path].owners ELSE {}) \cup { who }]
        ELSE files[p]]

----------------------------------------------------------------------------
(* The manifest: what book.get_item_with_id returns for the ids of a spine.  *)
(* The texts are "x" * 100 and "y" * 101 between white space (space, U+00A0, *)
(* carriage return, line feed, form feed).                                   *)

Item(type, body, content, title, name, soup, text) ==
    [type |-> type, body |-> body, content |-> content, title |-> title,
     name |-> name, soup |-> soup, text |-> text]

\* a label longer than the default maximum length: "t" * 60, a space, "u" * 59
NavLabel == Rep(116, 60) \o << 32 >> \o Rep(117, 59)

ItemIds == { "img", "nobody", "blank", "t100", "t101" }
SpineIds == ItemIds \cup { "missing" }

Manifest(id) ==
    CASE id = "img" ->
           Item("image", "", "png", <<>>, << 99, 46, 112, 110, 103 >>, <<>>, <<>>)
      [] id = "nobody" ->
           Item("document", "", "", << << 105, 116 >> >>, NameB, <<>>, <<>>)
      [] id = "blank" ->
           Item("document", "<p> </p>", "<html/>", <<>>, NameB,
                << El("p", "", <<>>, "body", FALSE) >>, << 32, 10 >>)
      [] id = "t100" ->
           Item("document", "", "<html><h2>hd</h2>x</html>", <<>>, NameB,
                << El("h2", "", << 104, 100 >>, "body", FALSE) >>,
                << 32, 160 >> \o Rep(120, 100) \o << 13, 10 >>)
      [] id = "t101" ->
           Item("document", "<p>y</p>", "<html/>", << << 105, 116 >> >>, NameInDir,
                << El("p", "", Rep(121, 101), "body", FALSE) >>,
                << 10 >> \o Rep(121, 101) \o << 12, 32 >>)

get_item_with_id(id) == IF id \in ItemIds THEN << Manifest(id) >> ELSE <<>>

\* line 52
BodyContent(item) == IF item.body # "" THEN item.body ELSE item.content

Skipped_any_type(id) ==
    LET epub_item == get_item_with_id(id)
    IN  \/ epub_item = <<>>
        \/ BodyContent(epub_item[1]) = ""

\* lines 50 and 55: the entry is passed over
Skipped(id) ==
    LET epub_item == get_item_with_id(id)
    IN  \/ epub_item = <<>>
        \/ epub_item[1].type # "document"
        \/ BodyContent(epub_item[1]) = ""

\* line 84
Content(item) == Strip(item.text)

----------------------------------------------------------------------------
(* process_all_epubs and extract_text_from_epub *)

FunctionVars == << call, ret >>

\* lines 143-145 and 30-47: the loop takes the next epub file and sets the book up
StartBook ==
    /\ pc = "glob"
    /\ queue # <<>>
    /\ LET b == Head(queue)
           folder == OutputFolder(output_base, b)
       IN  /\ book' = b
           /\ output_folder' = folder
           /\ dirs' = Append(dirs, folder)
           /\ nav_titles' = extract_titles_from_nav(b)
    /\ queue' = Tail(queue)
    /\ file_counter' = 1
    /\ non_chapter_content' = <<>>
    /\ idx' = FirstSpineIndex
    /\ written' = <<>>
    /\ agg_written' = 0
    /\ processed' = <<>>
    /\ pc' = "iter"
    /\ UNCHANGED << output_base, fs, err, FunctionVars >>

\* line 37: mkdir raises
StartBookMkdirFails ==
    /\ pc = "glob"
    /\ queue # <<>>
    /\ book' = Head(queue)
    /\ queue' = Tail(queue)
    /\ output_folder' = OutputFolder(output_base, Head(queue))
    /\ dirs' = Append(dirs, output_folder')
    /\ written' = <<>>
    /\ agg_written' = 0
    /\ processed' = <<>>
    /\ idx' = FirstSpineIndex
    /\ pc' = "raised"
    /\ err' = "mkdir"
    /\ UNCHANGED << output_base, file_counter, non_chapter_content, nav_titles, fs,
                    FunctionVars >>

\* lines 47-104: one iteration of the loop over the spine, the write succeeding
ProcessEntry ==
    /\ pc = "iter"
    /\ idx <= Len(book.spine)
    /\ idx' = idx + 1
    /\ IF Skipped(book.spine[idx])
       THEN UNCHANGED << file_counter, non_chapter_content, fs, written, processed >>
       ELSE LET epub_item == get_item_with_id(book.spine[idx])[1]
                title == ResolveTitle(epub_item, nav_titles)
                content == Content(epub_item)
                file_name == ChapterPath(output_folder, file_counter, title)
            IN  /\ processed' = Append(processed, idx)
                /\ IF IsChapter(content)
                   THEN /\ fs' = FsWrite(fs, file_name, content, Len(dirs))
                        /\ written' = Append(written,
                               [path |-> file_name, title |-> title, at |-> idx])
                        /\ file_counter' = CounterAfterWrite(file_counter)
                        /\ UNCHANGED non_chapter_content
                   ELSE /\ non_chapter_content' = non_chapter_content \o content \o << 10, 10 >>
                        /\ UNCHANGED << file_counter, fs, written >>
    /\ UNCHANGED << pc, queue, output_base, book, output_folder, nav_titles, err, dirs,
                    agg_written, FunctionVars >>

\* lines 99-100: open, write or close raises; the file is untouched, or holds the
\* part of the content that reached it
ProcessEntryWriteFails ==
    /\ pc = "iter"
    /\ idx <= Len(book.spine)
    /\ ~Skipped(book.spine[idx])
    /\ LET epub_item == get_item_with_id(book.spine[idx])[1]
           title == ResolveTitle(epub_item, nav_titles)
           content == Content(epub_item)
           file_name == ChapterPath(output_folder, file_counter, title)
       IN  /\ IsChapter(content)
           /\ \/ fs' = fs
              \/ \E n \in 0..Len(content) :
                    fs' = FsWrite(fs, file_name, Take(content, n), Len(dirs))
    /\ processed' = Append(processed, idx)
    /\ pc' = "raised"
    /\ err' = "chapter"
    /\ UNCHANGED << queue, output_base, book, output_folder, file_counter,
                    non_chapter_content, nav_titles, idx, dirs, written, agg_written,
                    FunctionVars >>

\* lines 107-110: after the loop, the aggregate file
Finalize ==
    /\ pc = "iter"
    /\ idx > Len(book.spine)
    /\ IF ShouldWriteAggregate(non_chapter_content)
       THEN /\ fs' = FsWrite(fs, PathJoin(output_folder, AggregateName),
                             non_chapter_content, Len(dirs))
            /\ agg_written' = agg_written + 1
       ELSE UNCHANGED << fs, agg_written >>
    /\ pc' = "glob"
    /\ UNCHANGED << queue, output_base, book, output_folder, file_counter,
                    non_chapter_content, nav_titles, idx, err, dirs, written, processed,
                    FunctionVars >>

\* lines 109-110: open, write or close of the aggregate file raises, likewise
FinalizeWriteFails ==
    /\ pc = "iter"
    /\ idx > Len(book.spine)
    /\ ShouldWriteAggregate(non_chapter_content)
    /\ \/ fs' = fs
       \/ \E n \in 0..Len(non_chapter_content) :
             fs' = FsWrite(fs, PathJoin(output_folder, AggregateName),
                           Take(non_chapter_content, n), Len(dirs))
    /\ pc' = "raised"
    /\ err' = "aggregate"
    /\ UNCHANGED << queue, output_base, book, output_folder, file_counter,
                    non_chapter_content, nav_titles, idx, dirs, written, agg_written,
                    processed, FunctionVars >>

\* line 146
Complete ==
    /\ pc = "glob"
    /\ queue = <<>>
    /\ pc' = "complete"
    /\ UNCHANGED << queue, output_base, book, output_folder, file_counter,
                    non_chapter_content, nav_titles, idx, fs, err, dirs, written,
                    agg_written, processed, FunctionVars >>

Next ==
    \/ StartBook
    \/ StartBookMkdirFails
    \/ ProcessEntry
    \/ ProcessEntryWriteFails
    \/ Finalize
    \/ FinalizeWriteFails
    \/ Complete

\* the spines of the bounds: a first entry that would be a chapter, then any entries
FirstEntries == { "t101" }

Spines ==
    { <<>> } \cup { << f >> \o s : f \in FirstEntries, s \in SeqsUpTo(SpineIds, MaxSpine - 1) }

BookOf(title, spine) ==
    [title |-> title, spine |-> spine, nav |-> << NavPoint(NavLabel, NameA \o << 35, 115 >>) >>]

\* the output roots as given: ".", "/", "./out/" and "d" * 150
BaseDot == << 46 >>
BaseSlash == << 47 >>
BaseShort == << 46, 47, 111, 117, 116, 47 >>
BaseLong == Rep(100, 150)

DriverInit ==
    /\ pc = "glob"
    /\ book = NoBook
    /\ output_folder = <<>>
    /\ file_counter = 1
    /\ non_chapter_content = <<>>
    /\ nav_titles = EmptyMap
    /\ idx = 1
    /\ fs = EmptyMap
    /\ err = ""
    /\ dirs = <<>>
    /\ written = <<>>
    /\ agg_written = 0
    /\ processed = <<>>
    /\ call = <<>>
    /\ ret = <<>>

\* one book, every spine of the bounds
Init ==
    /\ DriverInit
    /\ output_base \in { Path(BaseDot), Path(BaseLong) }
    /\ queue \in { << BookOf(<<>>, s) >> : s \in Spines }

Spec == Init /\ [][Next]_vars

\* a batch of books with different titles, each with a short spine
\* no title, "a-b", "a b" and "*"
BatchTitles == { <<>>, << << 97, 45, 98 >> >>, << << 97, 32, 98 >> >>, << << 42 >> >> }
BatchBooks == { BookOf(t, s) : t \in BatchTitles, s \in { << "img", "t101" >>, << "img", "t100" >> } }

InitBatch ==
    /\ DriverInit
    /\ output_base \in { Path(BaseShort), Path(BaseSlash) }
    /\ queue \in { q \in SeqsUpTo(BatchBooks, MaxBooks) :
                     \A i, j \in 1..Len(q) : i # j => q[i].title # q[j].title }

SpecBatch == InitBatch /\ [][Next]_vars

----------------------------------------------------------------------------
(* The driver's variables while a function is applied on its own *)

DriverAtRest ==
    /\ queue = <<>>
    /\ output_base = <<>>
    /\ book = NoBook
    /\ output_folder = <<>>
    /\ file_counter = 1
    /\ non_chapter_content = <<>>
    /\ idx = 1
    /\ fs = EmptyMap
    /\ err = ""
    /\ dirs = <<>>
    /\ written = <<>>
    /\ agg_written = 0
    /\ processed = <<>>

DriverVars == << queue, output_base, book, output_folder, file_counter,
                 non_chapter_content, idx, fs, err, dirs, written,
                 agg_written, processed >>

----------------------------------------------------------------------------
(* sanitize_filename applied to every title and maximum length of the bounds *)

\* a, Z, É, ω, 7, -, _, space
SanChars == { 97, 90, 201, 969, 55, 45, 95, 32 }

InitSan ==
    /\ DriverAtRest
    /\ pc = "sanitize"
    /\ nav_titles = EmptyMap
    /\ call \in [title : SeqsUpTo(SanChars, MaxTitleLen), max_length : 0..MaxLength]
    /\ ret = <<>>

Sanitize ==
    /\ pc = "sanitize"
    /\ ret' = sanitize_filename(call.title, call.max_length)
    /\ pc' = "sanitized"
    /\ UNCHANGED << DriverVars, nav_titles, call >>

NextSan == Sanitize

SpecSan == InitSan /\ [][NextSan]_vars

----------------------------------------------------------------------------
(* The title of one fragment, for every tree and navigation of the bounds *)

ElemPool ==
    { El("h2", "", << 104, 100 >>, "body", FALSE),
      El("h5", "", << 104, 120 >>, "body", FALSE),
      El("p", "title", << 112, 116 >>, "body", FALSE),
      El("p", "", << 112, 112 >>, "body", FALSE),
      El("div", "chapter-title", << 100, 99 >>, "body", FALSE),
      El("span", "chapter-title", << 115, 99 >>, "p", FALSE),
      El("em", "", << 101, 109, 100, 105, 118, 118 >>, "div", FALSE),
      El("em", "", << 101, 109, 111, 110, 101, 101 >>, "p", TRUE),
      El("em", "", << 101, 109, 109, 105, 100, 100 >>, "p", FALSE),
      El("em", "", << 101, 109, 102, 105, 118 >>, "div", TRUE) }

NavPointPool ==
    { NavPoint(<< 110, 97 >>, NameA),
      NavPoint(<< 110, 115 >>, NameA \o << 35, 115 >>),
      NavPoint(<< 110, 100 >>, NameInDir),
      NavPoint(<< 110, 98 >>, NameB) }

TitlePool == { <<>>, << <<>> >>, << << 105, 116 >> >> }

InitTitle ==
    /\ DriverAtRest
    /\ pc = "nav"
    /\ nav_titles = EmptyMap
    /\ call \in [ item : [ soup : SeqsUpTo(ElemPool, MaxSoup),
                           title : TitlePool,
                           name : { NameA, NameInDir } ],
                  nav : SeqsUpTo(NavPointPool, MaxNav) ]
    /\ ret = <<>>

BuildNavIndex ==
    /\ pc = "nav"
    /\ nav_titles' = extract_titles_from_nav(call)
    /\ pc' = "resolve"
    /\ UNCHANGED << DriverVars, call, ret >>

Resolve ==
    /\ pc = "resolve"
    /\ ret' = ResolveTitle(call.item, nav_titles)
    /\ pc' = "resolved"
    /\ UNCHANGED << DriverVars, nav_titles, call >>

NextTitle == BuildNavIndex \/ Resolve

SpecTitle == InitTitle /\ [][NextTitle]_vars

----------------------------------------------------------------------------
(* Claims about sanitize_filename *)

SafeChar(c) == IsAlnum(c) \/ c = 95

\* C4: for every title and every maximum length n >= 0, sanitize_filename(title, n)
\* is at most n characters long and holds only alphanumerics and underscores.
C4_SanitizedBounded ==
    pc = "sanitized" =>
        /\ Len(ret) <= call.max_length
        /\ \A i \in 1..Len(ret) : SafeChar(ret[i])

\* a title longer than n, holding a symbol, has been sanitized
C4_Witness ==
    /\ pc = "sanitized"
    /\ Len(call.title) > call.max_length
    /\ \E i \in 1..Len(call.title) : ~IsAlnum(call.title[i])
    /\ ret # <<>>

----------------------------------------------------------------------------
(* Claims about the title of a fragment *)

\* the steps of the cascade, each None or the title it gives
StepHeading(item) ==
    LET hs == { i \in 1..Len(item.soup) : item.soup[i].tag \in { "h1", "h2", "h3", "h4" } }
    IN  IF hs = {} THEN <<>> ELSE << item.soup[CHOOSE i \in hs : \A j \in hs : i <= j].text >>

\* the title-like classes, in their fallback order: p.title, div.chapter-title,
\* span.chapter-title; 0 for an element that carries none of them
TitleClassRank(e) ==
    IF e.tag = "p" /\ e.class = "title" THEN 1
    ELSE IF e.tag = "div" /\ e.class = "chapter-title" THEN 2
    ELSE IF e.tag = "span" /\ e.class = "chapter-title" THEN 3
    ELSE 0

StepTitleClass(item) ==
    LET soup == item.soup
        cs == { i \in 1..Len(soup) : TitleClassRank(soup[i]) > 0 }
        Before(i, j) ==
            \/ TitleClassRank(soup[i]) < TitleClassRank(soup[j])
            \/ TitleClassRank(soup[i]) = TitleClassRank(soup[j]) /\ i <= j
    IN  IF cs = {} THEN <<>>
        ELSE << soup[CHOOSE i \in cs : \A j \in cs : Before(i, j)].text >>

StepEmphasis(item) ==
    LET es == { i \in 1..Len(item.soup) :
                  /\ item.soup[i].tag = "em"
                  /\ Len(item.soup[i].text) >= 6
                  /\ (item.soup[i].first \/ item.soup[i].parent \in LikelyParents) }
    IN  IF es = {} THEN <<>> ELSE << item.soup[CHOOSE i \in es : \A j \in es : i <= j].text >>

StepNavigation(item) ==
    LET file == SplitFirst(SplitLast(item.name, 47), 35)
    IN  IF file \in DOMAIN nav_titles THEN << nav_titles[file] >> ELSE <<>>

StepIntrinsic(item) ==
    IF item.title # <<>> /\ item.title[1] # <<>> THEN item.title ELSE <<>>

\* C3: the title of a fragment is the value of the first step that hits, in the
\* order heading, title-class element, likely-title emphasis, navigation label
\* of the fragment's file name, intrinsic title, "Untitled".
C3_TitlePrecedence ==
    pc = "resolved" =>
        LET item == call.item
            h == StepHeading(item)
            c == StepTitleClass(item)
            e == StepEmphasis(item)
            n == StepNavigation(item)
            t == StepIntrinsic(item)
        IN  IF h # <<>> THEN ret = h[1]
            ELSE IF c # <<>> THEN ret = c[1]
            ELSE IF e # <<>> THEN ret = e[1]
            ELSE IF n # <<>> THEN ret = n[1]
            ELSE IF t # <<>> THEN ret = t[1]
            ELSE ret = Untitled

\* a fragment with a heading and a navigation entry, and one with neither heading,
\* title-class element nor likely emphasis but a navigation entry and an intrinsic title
C3_Witness ==
    /\ pc = "resolved"
    /\ StepNavigation(call.item) # <<>>
    /\ StepIntrinsic(call.item) # <<>>
    /\ StepHeading(call.item) = <<>>
    /\ StepTitleClass(call.item) = <<>>
    /\ StepEmphasis(call.item) = <<>>
    /\ \E i \in 1..Len(call.item.soup) : call.item.soup[i].tag = "em"
    /\ ret = call.nav[1].label
    /\ ret # call.item.title[1]

\* C7: every key of the navigation index is the entry's src without its anchor and
\* without its path prefix, so a fragment whose file name is the file an entry
\* refers to finds a label in the index.
C7_NavKeysAreFileNames ==
    pc \in { "resolve", "resolved" } =>
        /\ DOMAIN nav_titles =
              { SplitFirst(SplitLast(call.nav[i].src, 47), 35) : i \in 1..Len(call.nav) }
        /\ \A i \in 1..Len(call.nav) :
              SplitFirst(SplitLast(call.nav[i].src, 47), 35)
                  = SplitFirst(SplitLast(call.item.name, 47), 35)
              => SplitFirst(SplitLast(call.item.name, 47), 35) \in DOMAIN nav_titles

----------------------------------------------------------------------------
(* Claims about the driver, stated on the spine and the files, not on the  *)
(* driver's own operators                                                  *)

\* the running book has returned from extract_text_from_epub without an error
BookDone == pc \in { "glob", "complete" } /\ dirs # <<>>

\* the spine entries the loop has finished with
Finished == { i \in 2..Len(book.spine) : i < idx }

\* a spine entry whose item is missing, is no content document or has no body content
PassedOver(i) ==
    LET id == book.spine[i]
    IN  \/ id \notin ItemIds
        \/ Manifest(id).type # "document"
        \/ Manifest(id).body = "" /\ Manifest(id).content = ""

\* the trimmed text of a spine entry that is not passed over
Trimmed(i) == Strip(Manifest(book.spine[i]).text)

FileName(path) == SplitLast(path, 47)

\* int(digits)
RECURSIVE ParseNat(_)
ParseNat(digits) ==
    IF digits = <<>> THEN 0
    ELSE 10 * ParseNat(SubSeq(digits, 1, Len(digits) - 1))
         + (digits[Len(digits)] - 48)

NumericPrefix(path) == ParseNat(SplitFirst(FileName(path), 95))

\* C1: the numeric prefixes of the chapter files one run writes are 1, 2, ..., k in
\* spine order, and fragments classified as non-chapter do not advance the counter.
C1_ChapterNumbering ==
    /\ \A j \in 1..Len(written) :
          /\ NumericPrefix(written[j].path) = j
          /\ written[j].path \in DOMAIN fs
          /\ \A k \in 1..Len(written) : j < k => written[j].at < written[k].at
    /\ { written[j].at : j \in 1..Len(written) }
          = { i \in Finished : ~PassedOver(i) /\ Len(Trimmed(i)) > 100 }
    /\ file_counter = Len(written) + 1

\* two chapters written with a non-chapter fragment between them
C1_Witness ==
    /\ Len(written) >= 2
    /\ \E i \in Finished :
          /\ written[1].at < i /\ i < written[2].at
          /\ ~PassedOver(i)
          /\ Len(Trimmed(i)) <= 100

\* C2: when a book is done, 000_non_chapter_content.txt has been written if and only
\* if some fragment was classified as non-chapter and has text left after trimming;
\* it is written at most once, and only after the whole spine was iterated.
C2_AggregateIff ==
    /\ agg_written <= 1
    /\ agg_written = 1 =>
          /\ BookDone
          /\ idx > Len(book.spine)
          /\ PathJoin(output_folder, AggregateName) \in DOMAIN fs
    /\ BookDone =>
          (agg_written = 1 <=>
              \E i \in 2..Len(book.spine) :
                  ~PassedOver(i) /\ Len(Trimmed(i)) <= 100 /\ Trimmed(i) # <<>>)

\* a book done with the aggregate written, and one fragment of it blank
C2_Witness ==
    /\ BookDone
    /\ agg_written = 1
    /\ \E i \in 2..Len(book.spine) : ~PassedOver(i) /\ Trimmed(i) = <<>>

\* the text the non-chapter fragments among the entries 2..n add to the aggregate
RECURSIVE AggregateOf(_)
AggregateOf(n) ==
    IF n < 2 THEN <<>>
    ELSE AggregateOf(n - 1) \o
         (IF ~PassedOver(n) /\ Len(Trimmed(n)) <= 100
          THEN Trimmed(n) \o << 10, 10 >> ELSE <<>>)

\* C5: a fragment whose trimmed text is 100 characters or shorter is accumulated into
\* the aggregate, and one of 101 characters or more is written as a chapter.
C5_ClassifierBoundary ==
    /\ non_chapter_content = AggregateOf(IF idx - 1 < Len(book.spine) THEN idx - 1 ELSE Len(book.spine))
    /\ \A i \in Finished :
          ~PassedOver(i) =>
              IF Len(Trimmed(i)) >= 101
              THEN \E j \in 1..Len(written) :
                      written[j].at = i /\ fs[written[j].path].content = Trimmed(i)
              ELSE \A j \in 1..Len(written) : written[j].at # i

\* a fragment of exactly 100 characters and one of exactly 101 have been classified
C5_Witness ==
    /\ \E i \in Finished : ~PassedOver(i) /\ Len(Trimmed(i)) = 100
    /\ \E i \in Finished : ~PassedOver(i) /\ Len(Trimmed(i)) = 101
    /\ Len(non_chapter_content) = 102

\* C8: a failed chapter write does not halt the book: whenever the program has
\* stopped after one, every spine entry has been iterated.
C8_WriteFailureDoesNotHaltBook ==
    (pc \in { "raised", "complete" } /\ err = "chapter") => idx > Len(book.spine)

\* the first candidate path of the j-th chapter written
FirstCandidate(j) ==
    PathJoin(output_folder,
        Fmt03(j) \o << 95 >> \o sanitize_filename(written[j].title, 100) \o DotTxt)

\* the path after one more sanitizing with the reduced maximum length
SecondCandidate(j) ==
    LET prefix == Fmt03(j) \o << 95 >>
    IN  PathJoin(output_folder,
            prefix \o sanitize_filename(written[j].title, 100 - (Len(prefix) + Len(DotTxt)))
                   \o DotTxt)

\* C9 as stated: a first candidate path longer than 255 is replaced by the path
\* of the title sanitized again to 100 - (prefix + extension), which fits in 255;
\* a first candidate of at most 255 is used unchanged.
C9_RetriedPathFits ==
    \A j \in 1..Len(written) :
        IF Len(FirstCandidate(j)) > 255
        THEN written[j].path = SecondCandidate(j) /\ Len(written[j].path) <= 255
        ELSE written[j].path = FirstCandidate(j)

\* the entries among 2..n that are not passed over, in spine order
RECURSIVE NotPassedOver(_)
NotPassedOver(n) ==
    IF n < 2 THEN <<>>
    ELSE NotPassedOver(n - 1) \o (IF PassedOver(n) THEN <<>> ELSE << n >>)

ProcessedInSpineOrder ==
    processed = NotPassedOver(IF pc = "raised" /\ err = "chapter" THEN idx
                              ELSE IF idx - 1 < Len(book.spine) THEN idx - 1
                              ELSE Len(book.spine))

SkipChangesNothing ==
    (pc = "iter" /\ idx <= Len(book.spine) /\ PassedOver(idx)) =>
        /\ fs' = fs
        /\ file_counter' = file_counter
        /\ non_chapter_content' = non_chapter_content
        /\ written' = written
        /\ pc' = "iter"
        /\ err' = err
        /\ idx' = idx + 1

\* C10: the first spine entry and every entry whose item is missing, is no content
\* document or has no body content change no file, counter or buffer and raise no
\* error; every other entry is processed once, in spine order.
C10_SkipLeavesStateUnchanged ==
    [](ProcessedInSpineOrder) /\ [][SkipChangesNothing]_vars

\* a book done whose first entry is a document, with a missing item, an image and
\* an empty document passed over and another entry processed
C10_Witness ==
    /\ BookDone
    /\ book.spine # <<>>
    /\ book.spine[1] = "t101"
    /\ \E i \in 2..Len(book.spine) : book.spine[i] \in { "missing", "img", "nobody" }
    /\ processed # <<>>

\* C6: two books of one batch never share an output folder, and no file written
\* for one book is written again for another.
C6_OutputDirsDisjoint ==
    /\ \A i, j \in 1..Len(dirs) : i # j => dirs[i] # dirs[j]
    /\ \A p \in DOMAIN fs : Cardinality(fs[p].owners) <= 1

====
